---- MODULE Spec2Model ----
(***************************************************************************)
(* A model of the serial-keyboard firmware (arduino-src/dancepad):         *)
(* the debounce Timer, the Key_tick scan pass and the State_run protocol   *)
(* loop (magic-number resync, setup commands).                             *)
(***************************************************************************)
EXTENDS Integers, Sequences, FiniteSets, TLC

(***************************************************************************)
(* Machine arithmetic.  `unsigned long` is modelled ClockBits wide; sums   *)
(* and differences wrap modulo 2^ClockBits as they do in the firmware.     *)
(***************************************************************************)
ClockBits == 10

Mod == 2 ^ ClockBits

Half == 2 ^ (ClockBits - 1)

ULong == 0 .. (Mod - 1)

\* unsigned long addition
Add(a, b) == (a + b) % Mod

\* unsigned long subtraction
Sub(a, b) == (a - b) % Mod

\* the conversion (signed long)x of an unsigned long x
AsSigned(x) == IF x >= Half THEN x - Mod ELSE x

(***************************************************************************)
(* Program constants.                                                      *)
(***************************************************************************)
SETUPCMD_FINISH == 15

SETUPCMD_ADD_KEY == 173

SETUPCMD_SET_DEBOUNCE == 219

SETUPCMD_AWAIT_SMOOTHNESS == 174

CMD_RESET == 238

SETUPCMD_ENABLE_INTERRUPTS == 234

MAX_KEYS == 128

\* 'S','e','r','K','e','y','0','1'
MAGIC_NUMBER == <<83, 101, 114, 75, 101, 121, 48, 49>>

\* State::init: debounce_micros
DEFAULT_DEBOUNCE == 1000

\* Key_tick: min_tick_time = micros() + 50
GUARD_MARGIN == 50

(***************************************************************************)
(* Bounds of the model.                                                    *)
(***************************************************************************)
\* bytes the host sends before the device is left alone in RESYNC
MaxResyncBytes == 12

\* setup commands the host sends in one session
MaxCmds == 2

\* largest first (high) byte of a declared payload length
MaxLenHi == 1

\* largest second (low) byte of a declared payload length
MaxLenLo == 5

\* largest payload byte the host sends
MaxByte == 2

\* State_run invocations (static_runs)
MaxRuns == 2

\* times the clock advances in a streaming phase
MaxAdvances == 5

\* keys registered when the open-pins loop begins
MaxOpenKeys == 3

\* keys registered when a streaming phase begins
MaxScanKeys == 2

VARIABLES
    \* ---- the Timer object of SpecTimer
    tm,        \* the Timer under test
    tmOp,      \* the last call made on it: "init", "set", "check"
    tmArg,     \* the deadline passed to the last set
    tmRet,     \* the value returned by the last check, if a check was the last call
    tmWant,    \* history: the wraparound rule evaluated on that check's arguments
    tmWrap,    \* history: that check's `now` was numerically below the deadline
    tmSame,    \* history: that check left the timer object unchanged
    tmPrior,   \* history: a check had returned true since the last set, before the last check
    \* ---- State_run: control and locals
    pc,                \* where State_run stands
    magic_idx,         \* int magic_idx
    garbage,           \* int garbage
    cmd,               \* byte cmd
    len_hi,            \* the first payload-length byte, read and not yet combined
    payload_len,       \* unsigned int payload_len
    process_commands,  \* bool process_commands
    args,              \* payload bytes of the current command read by its case so far
    static_runs,       \* int static_runs
    \* ---- static_state
    st,        \* debounce_micros, await_smoothness, enable_interrupts, key_count
    keys,      \* keys[0 .. key_count-1], as a sequence (keys[i+1] is the C keys[i])
    \* ---- the pins
    pinmode,   \* pin -> "reset", "INPUT_PULLUP", "INPUT"
    attached,  \* pins whose change interrupt is attached to Key_handle_interrupt
    \* ---- history of the serial link
    rx,          \* the last byte read by the magic-number loop
    nread,       \* bytes read by the magic-number loop in this session
    seen,        \* length of the longest tail of those bytes that is a head of the magic
    matched,     \* the last 8 bytes read have equalled the magic at some point
    echoes,      \* times the magic number was written back in this session
    reported,    \* the garbage count printed after the echo
    entries,     \* times the command loop was entered in this session
    ncmds,       \* command bytes read in this session
    frame_len,   \* payload length the host declared for the current command
    frame_read,  \* bytes read since (and with) the current command byte
    snap,        \* <<st, keys>> when the current command byte was read
    \* ---- the clock, the pins' levels and Key_tick
    clock,          \* what micros() returns
    low,            \* pins on which digitalRead returns LOW
    min_tick_time,  \* static volatile unsigned long min_tick_time
    ti,             \* Key_tick: int i
    is_down,        \* Key_tick: bool is_down of keys[i]
    debounce,       \* Key_tick: bool debounce of keys[i]
    \* ---- history of the scan
    nadv,      \* times the clock was advanced
    sent,      \* event bytes written by the pass in progress (or the last one)
    chk,       \* what the last change test of a key found and did
    passes,    \* passes completed: 0, or 1 for one or more
    dirty,     \* a pin changed since the last pass began
    quiet,     \* no pin changed since the pass before the current one began
    held,      \* keys whose change the current pass has seen and not reported
    heldPrev,  \* keys whose change the pass before the current one saw and did not report
    chg,       \* per key: changes of its pin since it last agreed with was_down (2: two or more)
    since,     \* per key: events written since the last change of its pin (2: two or more)
    \* ---- the open-pins loop and the interrupts
    oi,        \* State_run, open pins: int i
    ints,      \* the global interrupt flag: FALSE between noInterrupts() and interrupts()
    irq,       \* attached pins whose change has not been served by the handler yet
    \* ---- history of the pins and of the events
    opened,    \* the hardware setups done by the open-pins loop, in order
    isr,       \* the last run of Key_handle_interrupt: whether its pass ran, and when
    host       \* per key index: the state bit of the last event byte; all events alternated

timerVars == <<tm, tmOp, tmArg, tmRet, tmWant, tmWrap, tmSame, tmPrior>>

runVars == <<pc, magic_idx, garbage, cmd, len_hi, payload_len, process_commands, args,
             static_runs>>

stateVars == <<st, keys>>

pinVars == <<pinmode, attached>>

linkVars == <<rx, nread, seen, matched, echoes, reported, entries, ncmds, frame_len,
              frame_read, snap>>

tickVars == <<clock, low, min_tick_time, ti, is_down, debounce>>

scanHist == <<nadv, sent, chk, passes, dirty, quiet, held, heldPrev, chg, since>>

hwVars == <<oi, ints, irq, opened, isr, host>>

scanVars == <<tickVars, scanHist, hwVars>>

vars == <<timerVars, runVars, stateVars, pinVars, linkVars, scanVars>>

(***************************************************************************)
(* struct Timer                                                            *)
(***************************************************************************)
Timer_init(t) == [t EXCEPT !.enabled = FALSE]

Timer_set(t, deadline) == [timeout |-> deadline, enabled |-> TRUE]

\* Timer::check with the comparison done on the raw unsigned values
Timer_check_naive(t, now) ==
    LET expired == t.enabled /\ now >= t.timeout
    IN  [ret |-> expired,
         self |-> IF expired THEN [t EXCEPT !.enabled = FALSE] ELSE t]

\* Timer::check without the disarm on expiry
Timer_check_keep(t, now) ==
    LET expired == t.enabled /\ AsSigned(Sub(now, t.timeout)) >= 0
    IN  [ret |-> expired, self |-> t]

\* Timer::check: the returned value and the timer afterwards
Timer_check(t, now) ==
    LET expired == t.enabled /\ AsSigned(Sub(now, t.timeout)) >= 0
    IN  [ret |-> expired,
         self |-> IF expired THEN [t EXCEPT !.enabled = FALSE] ELSE t]

(***************************************************************************)
(* struct Key, struct State                                                *)
(***************************************************************************)
\* Key::init.  A slot's timeout keeps whatever it held; it is written as 0
\* here because Timer::check reads it only while enabled, i.e. after a set.
Key_init(pin) ==
    [pin |-> pin, was_down |-> FALSE,
     debounce_timer |-> Timer_init([timeout |-> 0, enabled |-> FALSE])]

\* State::init.  key_count = 0 puts every slot of keys[] out of reach until
\* Key::init rewrites it, so the sequence of reachable slots is empty.
State_init ==
    [debounce_micros |-> DEFAULT_DEBOUNCE, await_smoothness |-> TRUE,
     enable_interrupts |-> FALSE, key_count |-> 0]

set_debounce(s, micros) == [s EXCEPT !.debounce_micros = micros]

set_await_smoothness(s, await) == [s EXCEPT !.await_smoothness = await]

set_enable_interrupts(s, enable) == [s EXCEPT !.enable_interrupts = enable]

\* Key_setup without the capacity test
Key_setup_unchecked(s, ks, pin) ==
    [st |-> [s EXCEPT !.key_count = @ + 1], keys |-> Append(ks, Key_init(pin))]

\* Key_setup: the State fields and the keys afterwards
Key_setup(s, ks, pin) ==
    IF s.key_count < MAX_KEYS
    THEN [st |-> [s EXCEPT !.key_count = @ + 1], keys |-> Append(ks, Key_init(pin))]
    ELSE [st |-> s, keys |-> ks]

Pins == 0 .. MaxByte

(***************************************************************************)
(* Values of the variables a specification does not use.                   *)
(***************************************************************************)
IdleTimer ==
    /\ tm = [timeout |-> 0, enabled |-> FALSE]
    /\ tmOp = "init"
    /\ tmArg = 0
    /\ tmRet = FALSE
    /\ tmWant = FALSE
    /\ tmWrap = FALSE
    /\ tmSame = TRUE
    /\ tmPrior = FALSE

IdleRun ==
    /\ pc = "off"
    /\ magic_idx = 0
    /\ garbage = 0
    /\ cmd = 0
    /\ len_hi = 0
    /\ payload_len = 0
    /\ process_commands = TRUE
    /\ args = << >>
    /\ static_runs = 0
    /\ st = State_init
    /\ keys = << >>
    /\ pinmode = [p \in Pins |-> "reset"]
    /\ attached = {}

IdleLink ==
    /\ rx = 0
    /\ nread = 0
    /\ seen = 0
    /\ matched = FALSE
    /\ echoes = 0
    /\ reported = 0
    /\ entries = 0
    /\ ncmds = 0
    /\ frame_len = 0
    /\ frame_read = 0
    /\ snap = <<State_init, << >> >>

NoCheck ==
    [i |-> 0, pending |-> FALSE, armed |-> FALSE, due |-> FALSE, event |-> FALSE,
     single |-> FALSE]

NoIsr == [ran |-> FALSE, opening |-> FALSE, unset |-> FALSE]

\* the host's view of n keys before any event
NoEvents(n) == [bit |-> [i \in 0 .. n - 1 |-> FALSE], alternates |-> TRUE]

IdleScan ==
    /\ oi = 0
    /\ ints = TRUE
    /\ irq = {}
    /\ opened = << >>
    /\ isr = NoIsr
    /\ host = NoEvents(0)
    /\ clock = 0
    /\ low = {}
    /\ min_tick_time = 0
    /\ ti = 0
    /\ is_down = FALSE
    /\ debounce = FALSE
    /\ nadv = 0
    /\ sent = << >>
    /\ chk = NoCheck
    /\ passes = 0
    /\ dirty = FALSE
    /\ quiet = FALSE
    /\ held = {}
    /\ heldPrev = {}
    /\ chg = << >>
    /\ since = << >>

(***************************************************************************)
(* SpecTimer: one Timer driven by arbitrary set/check calls.               *)
(***************************************************************************)
\* The rule the timer is documented to follow, on the mathematical integers.
ForwardDistance(deadline, now) == (now - deadline) % Mod

\* A Timer of the zero-initialised static_state after Timer::init.
InitTimer ==
    /\ tm = Timer_init([timeout |-> 0, enabled |-> FALSE])
    /\ tmOp = "init"
    /\ tmArg = 0
    /\ tmRet = FALSE
    /\ tmWant = FALSE
    /\ tmWrap = FALSE
    /\ tmSame = TRUE
    /\ tmPrior = FALSE
    /\ IdleRun
    /\ IdleLink
    /\ IdleScan

TimerSetStep ==
    \E deadline \in ULong :
        /\ tm' = Timer_set(tm, deadline)
        /\ tmOp' = "set"
        /\ tmArg' = deadline
        /\ tmPrior' = FALSE
        /\ tmRet' = FALSE
        /\ tmWant' = FALSE
        /\ tmWrap' = FALSE
        /\ tmSame' = TRUE
        /\ UNCHANGED <<runVars, stateVars, pinVars, linkVars, scanVars>>

TimerCheckStep ==
    \E now \in ULong :
        LET r == Timer_check(tm, now)
        IN  /\ tm' = r.self
            /\ tmRet' = r.ret
            /\ tmOp' = "check"
            /\ tmWant' = (tm.enabled /\ ForwardDistance(tm.timeout, now) < Half)
            /\ tmWrap' = (now < tm.timeout)
            /\ tmSame' = (r.self = tm)
            /\ tmPrior' = (tmPrior \/ (tmOp = "check" /\ tmRet))
            /\ UNCHANGED tmArg
            /\ UNCHANGED <<runVars, stateVars, pinVars, linkVars, scanVars>>

NextTimer == TimerSetStep \/ TimerCheckStep

SpecTimer == InitTimer /\ [][NextTimer]_vars

\* C1: check(now) on a timer armed with set(deadline) returns true iff
\* (now - deadline) mod 2^W < 2^(W-1), for every now and deadline; on a timer
\* that is not enabled it returns false.
C1_CheckRule == tmOp = "check" => (tmRet = tmWant)

\* a check returned true although `now` had wrapped below the deadline
C1_Witness == tmOp = "check" /\ tmRet /\ tmWrap

\* C2: the timer is one-shot: after a check returned true every later check
\* returns false until the next set; set(deadline) leaves the timer enabled
\* with exactly that deadline; a check that returns false leaves the enabled
\* flag and the deadline unchanged.
C2_OneShot ==
    /\ (tmOp = "check" /\ tmPrior) => ~tmRet
    /\ tmOp = "set" => (tm.enabled /\ tm.timeout = tmArg)
    /\ (tmOp = "check" /\ ~tmRet) => tmSame

\* a check that followed a true check, with no set in between
C2_Witness == tmOp = "check" /\ tmPrior /\ ~tmRet /\ tmSame

(***************************************************************************)
(* State_run: reading the magic number.                                    *)
(***************************************************************************)
\* what the host may send while the device looks for the magic number:
\* the bytes of the magic number and one byte that is not in it
ResyncBytes == {MAGIC_NUMBER[k] : k \in 1 .. 8} \cup {0}

\* the loop body with `garbage += magic_idx` done before the increment
MagicStep_early(idx, g, b) ==
    IF b # MAGIC_NUMBER[idx + 1]
    THEN [magic_idx |-> 0, garbage |-> g + idx]
    ELSE [magic_idx |-> idx + 1, garbage |-> g]

\* the loop body on the byte b: magic_idx and garbage afterwards
\* (MAGIC_NUMBER[idx + 1] is the C MAGIC_NUMBER[magic_idx], then magic_idx++)
MagicStep(idx, g, b) ==
    IF b # MAGIC_NUMBER[idx + 1]
    THEN [magic_idx |-> 0, garbage |-> g + (idx + 1)]
    ELSE [magic_idx |-> idx + 1, garbage |-> g]

\* History: the last j bytes of s are the first j bytes of the magic number.
EndsWithHead(s, j) ==
    j <= Len(s) /\ SubSeq(s, Len(s) - j + 1, Len(s)) = SubSeq(MAGIC_NUMBER, 1, j)

\* History: the longest tail of the bytes read that is a head of the magic
\* number, after reading b; k is that length before b.  The bytes read end
\* with the first k bytes of the magic number, and no longer tail is a head.
SeenNext(k, b) ==
    LET s == Append(SubSeq(MAGIC_NUMBER, 1, k), b)
        fits == {j \in 0 .. 8 : EndsWithHead(s, j)}
    IN  CHOOSE j \in fits : \A i \in fits : i <= j

\* while (magic_idx < 8) { if (next_serial_byte() != MAGIC_NUMBER[magic_idx++]) ... }
ReadMagicByte ==
    /\ pc = "resync"
    /\ nread < MaxResyncBytes
    /\ \E b \in ResyncBytes :
        LET r == MagicStep(magic_idx, garbage, b)
            k == SeenNext(seen, b)
        IN  /\ magic_idx' = r.magic_idx
            /\ garbage' = r.garbage
            /\ pc' = IF r.magic_idx < 8 THEN "resync" ELSE "echo"
            /\ rx' = b
            /\ nread' = nread + 1
            /\ seen' = k
            /\ matched' = (matched \/ k = 8)
    /\ UNCHANGED <<cmd, len_hi, payload_len, process_commands, args, static_runs>>
    /\ UNCHANGED <<echoes, reported, entries, ncmds, frame_len, frame_read, snap>>
    /\ UNCHANGED <<timerVars, stateVars, pinVars, scanVars>>

\* Serial.write("SerKey01"), the log lines, bool process_commands = true
SendMagic ==
    /\ pc = "echo"
    /\ echoes' = echoes + 1
    /\ reported' = garbage
    /\ entries' = entries + 1
    /\ process_commands' = TRUE
    /\ pc' = "cmd"
    /\ UNCHANGED <<magic_idx, garbage, cmd, len_hi, payload_len, args, static_runs>>
    /\ UNCHANGED <<rx, nread, seen, matched, ncmds, frame_len, frame_read, snap>>
    /\ UNCHANGED <<timerVars, stateVars, pinVars, scanVars>>

(***************************************************************************)
(* State_run: the command loop.  Every next_serial_byte() is one step.     *)
(***************************************************************************)
\* command bytes the host may send: the six commands and a byte that is none
CmdBytes ==
    {SETUPCMD_FINISH, SETUPCMD_ADD_KEY, SETUPCMD_SET_DEBOUNCE, SETUPCMD_AWAIT_SMOOTHNESS,
     CMD_RESET, SETUPCMD_ENABLE_INTERRUPTS, 0}

\* payload lengths the host may declare
Lengths == {h * 256 + l : h \in 0 .. MaxLenHi, l \in 0 .. MaxLenLo}

\* the two length bytes combined with the second byte in the high half
PayloadLen_swapped(first, second) == second * 256 + first

\* ((unsigned int)next_serial_byte()) << 8 | (unsigned int)next_serial_byte()
PayloadLen(first, second) == first * 256 + second

\* the four payload bytes of SET_DEBOUNCE as an unsigned long
DebounceOf(a) == (a[1] * (2 ^ 24) + a[2] * (2 ^ 16) + a[3] * (2 ^ 8) + a[4]) % Mod

\* the length tests of the cases, never true
TooShort_never(c, len) == FALSE

\* the `payload_len < 1` and `payload_len < 4` tests of the cases
TooShort(c, len) ==
    \/ c \in {SETUPCMD_ADD_KEY, SETUPCMD_AWAIT_SMOOTHNESS, SETUPCMD_ENABLE_INTERRUPTS}
       /\ len < 1
    \/ c = SETUPCMD_SET_DEBOUNCE /\ len < 4

\* payload bytes a case reads before it acts
NeedArgs(c) == IF c = SETUPCMD_SET_DEBOUNCE THEN 4 ELSE 1

\* byte cmd = next_serial_byte();
ReadCmd ==
    /\ pc = "cmd"
    /\ ncmds < MaxCmds
    /\ \E b \in CmdBytes : cmd' = b
    /\ \E len \in Lengths : frame_len' = len
    /\ pc' = "len_hi"
    /\ ncmds' = ncmds + 1
    /\ frame_read' = 1
    /\ snap' = <<st, keys>>
    /\ args' = << >>
    /\ UNCHANGED <<magic_idx, garbage, len_hi, payload_len, process_commands, static_runs>>
    /\ UNCHANGED <<rx, nread, seen, matched, echoes, reported, entries>>
    /\ UNCHANGED <<timerVars, stateVars, pinVars, scanVars>>

\* the first next_serial_byte() of the payload length: the host sends the
\* high byte of the length it declares
ReadLenHi ==
    /\ pc = "len_hi"
    /\ len_hi' = frame_len \div 256
    /\ pc' = "len_lo"
    /\ frame_read' = frame_read + 1
    /\ UNCHANGED <<magic_idx, garbage, cmd, payload_len, process_commands, args, static_runs>>
    /\ UNCHANGED <<rx, nread, seen, matched, echoes, reported, entries, ncmds, frame_len, snap>>
    /\ UNCHANGED <<timerVars, stateVars, pinVars, scanVars>>

\* the second next_serial_byte() of the payload length: the host sends the
\* low byte
ReadLenLo ==
    /\ pc = "len_lo"
    /\ payload_len' = PayloadLen(len_hi, frame_len % 256)
    /\ pc' = "switch"
    /\ frame_read' = frame_read + 1
    /\ UNCHANGED <<magic_idx, garbage, cmd, len_hi, process_commands, args, static_runs>>
    /\ UNCHANGED <<rx, nread, seen, matched, echoes, reported, entries, ncmds, frame_len, snap>>
    /\ UNCHANGED <<timerVars, stateVars, pinVars, scanVars>>

\* switch (cmd), up to the first payload read of the case
Dispatch ==
    /\ pc = "switch"
    /\ CASE cmd = SETUPCMD_FINISH -> process_commands' = FALSE /\ pc' = "drain"
         [] cmd = CMD_RESET -> UNCHANGED process_commands /\ pc' = "quit"
         [] cmd \in {SETUPCMD_ADD_KEY, SETUPCMD_SET_DEBOUNCE, SETUPCMD_AWAIT_SMOOTHNESS,
                     SETUPCMD_ENABLE_INTERRUPTS} ->
                /\ UNCHANGED process_commands
                /\ pc' = IF TooShort(cmd, payload_len) THEN "drain" ELSE "arg"
         [] OTHER -> UNCHANGED process_commands /\ pc' = "drain"
    /\ UNCHANGED <<magic_idx, garbage, cmd, len_hi, payload_len, args, static_runs>>
    /\ UNCHANGED <<timerVars, stateVars, pinVars, linkVars, scanVars>>

\* the state after the case of command c has read its payload bytes a
ApplyCmd(c, a) ==
    CASE c = SETUPCMD_ADD_KEY -> Key_setup(st, keys, a[1])
      [] c = SETUPCMD_SET_DEBOUNCE ->
            [st |-> set_debounce(st, DebounceOf(a)), keys |-> keys]
      [] c = SETUPCMD_AWAIT_SMOOTHNESS ->
            [st |-> set_await_smoothness(st, a[1] # 0), keys |-> keys]
      [] c = SETUPCMD_ENABLE_INTERRUPTS ->
            [st |-> set_enable_interrupts(st, a[1] # 0), keys |-> keys]

\* a next_serial_byte() inside a case; with the last one the case acts and
\* takes what it read off payload_len (args keeps the pin passed to Key_setup
\* until the next command byte)
ReadArg ==
    /\ pc = "arg"
    /\ \E b \in 0 .. MaxByte :
        LET a == Append(args, b)
        IN  IF Len(a) < NeedArgs(cmd)
            THEN /\ args' = a
                 /\ UNCHANGED <<pc, payload_len, st, keys>>
            ELSE /\ args' = IF cmd = SETUPCMD_ADD_KEY THEN a ELSE << >>
                 /\ st' = ApplyCmd(cmd, a).st
                 /\ keys' = ApplyCmd(cmd, a).keys
                 /\ payload_len' = payload_len - NeedArgs(cmd)
                 /\ pc' = "drain"
    /\ frame_read' = frame_read + 1
    /\ UNCHANGED <<magic_idx, garbage, cmd, len_hi, process_commands, static_runs>>
    /\ UNCHANGED <<rx, nread, seen, matched, echoes, reported, entries, ncmds, frame_len, snap>>
    /\ UNCHANGED <<timerVars, pinVars, scanVars>>

\* set_enable_interrupts is declared bool and returns no value: after its
\* body the behaviour is undefined, and a build may not come back to the
\* command loop
EnableInterruptsNoReturn ==
    /\ pc = "arg"
    /\ cmd = SETUPCMD_ENABLE_INTERRUPTS
    /\ \E b \in 0 .. MaxByte : st' = set_enable_interrupts(st, b # 0)
    /\ pc' = "undefined"
    /\ frame_read' = frame_read + 1
    /\ UNCHANGED <<magic_idx, garbage, cmd, len_hi, payload_len, process_commands, args,
                   static_runs, keys>>
    /\ UNCHANGED <<rx, nread, seen, matched, echoes, reported, entries, ncmds, frame_len, snap>>
    /\ UNCHANGED <<timerVars, pinVars, scanVars>>

\* while (payload_len > 0) { next_serial_byte(); payload_len--; }
DrainByte ==
    /\ pc = "drain"
    /\ payload_len > 0
    /\ payload_len' = payload_len - 1
    /\ frame_read' = frame_read + 1
    /\ UNCHANGED <<pc, magic_idx, garbage, cmd, len_hi, process_commands, args, static_runs>>
    /\ UNCHANGED <<rx, nread, seen, matched, echoes, reported, entries, ncmds, frame_len, snap>>
    /\ UNCHANGED <<timerVars, stateVars, pinVars, scanVars>>

\* the drain loop ends; while (process_commands)
EndCommand ==
    /\ pc = "drain"
    /\ payload_len = 0
    /\ pc' = IF process_commands THEN "cmd" ELSE "open"
    /\ UNCHANGED <<magic_idx, garbage, cmd, len_hi, payload_len, process_commands, args,
                   static_runs>>
    /\ UNCHANGED <<timerVars, stateVars, pinVars, linkVars, scanVars>>

\* pins of the registered keys
KeyPins == {keys[i].pin : i \in 1 .. Len(keys)}

\* the cleanup loop without its detachInterrupt
Cleanup_nodetach ==
    /\ pc = "quit"
    /\ pinmode' = [p \in Pins |-> IF p \in KeyPins THEN "INPUT" ELSE pinmode[p]]
    /\ pc' = "returned"
    /\ UNCHANGED <<magic_idx, garbage, cmd, len_hi, payload_len, process_commands, args,
                   static_runs>>
    /\ UNCHANGED <<attached, hwVars>>
    /\ UNCHANGED <<timerVars, stateVars, linkVars, tickVars, scanHist>>

\* quit: pinMode(key->pin, INPUT); detachInterrupt(...) for every key
Cleanup ==
    /\ pc = "quit"
    /\ pinmode' = [p \in Pins |-> IF p \in KeyPins THEN "INPUT" ELSE pinmode[p]]
    /\ attached' = attached \ KeyPins
    /\ irq' = irq \ KeyPins
    /\ pc' = "returned"
    /\ UNCHANGED <<magic_idx, garbage, cmd, len_hi, payload_len, process_commands, args,
                   static_runs>>
    /\ UNCHANGED <<oi, ints, opened, isr, host>>
    /\ UNCHANGED <<timerVars, stateVars, linkVars, tickVars, scanHist>>

\* loop(): static_runs++; State_run(&static_state): state->init(), the locals
\* of the magic-number loop
Restart ==
    /\ pc = "returned"
    /\ static_runs < MaxRuns
    /\ static_runs' = static_runs + 1
    /\ st' = State_init
    /\ keys' = << >>
    /\ magic_idx' = 0
    /\ garbage' = 0
    /\ pc' = "resync"
    /\ rx' = 0
    /\ nread' = 0
    /\ seen' = 0
    /\ matched' = FALSE
    /\ echoes' = 0
    /\ reported' = 0
    /\ entries' = 0
    /\ ncmds' = 0
    /\ frame_len' = 0
    /\ frame_read' = 0
    /\ snap' = <<State_init, << >> >>
    /\ oi' = 0
    /\ opened' = << >>
    /\ isr' = NoIsr
    /\ host' = NoEvents(0)
    /\ UNCHANGED <<cmd, len_hi, payload_len, process_commands, args>>
    /\ UNCHANGED <<timerVars, pinVars, tickVars, scanHist, ints, irq>>

(***************************************************************************)
(* SpecResync: a session from the entry of State_run to the command loop.  *)
(***************************************************************************)
InitResync ==
    /\ IdleTimer
    /\ pc = "resync"
    /\ magic_idx = 0
    /\ garbage = 0
    /\ cmd = 0
    /\ len_hi = 0
    /\ payload_len = 0
    /\ process_commands = TRUE
    /\ args = << >>
    /\ static_runs = 1
    /\ st = State_init
    /\ keys = << >>
    /\ pinmode = [p \in Pins |-> "reset"]
    /\ attached = {}
    /\ IdleLink
    /\ IdleScan

NextResync == ReadMagicByte \/ SendMagic

SpecResync == InitResync /\ [][NextResync]_vars

(***************************************************************************)
(* SpecConfig: the command loop of a session whose host sent the magic     *)
(* number with nothing before it.                                          *)
(***************************************************************************)
InitConfig ==
    /\ IdleTimer
    /\ pc = "cmd"
    /\ magic_idx = 8
    /\ garbage = 0
    /\ cmd = 0
    /\ len_hi = 0
    /\ payload_len = 0
    /\ process_commands = TRUE
    /\ args = << >>
    /\ static_runs = 1
    /\ st = State_init
    /\ keys = << >>
    /\ pinmode = [p \in Pins |-> "reset"]
    /\ attached = {}
    /\ rx = MAGIC_NUMBER[8]
    /\ nread = 8
    /\ seen = 8
    /\ matched = TRUE
    /\ echoes = 1
    /\ reported = 0
    /\ entries = 1
    /\ ncmds = 0
    /\ frame_len = 0
    /\ frame_read = 0
    /\ snap = <<State_init, << >> >>
    /\ IdleScan

NextConfig ==
    \/ ReadCmd
    \/ ReadLenHi
    \/ ReadLenLo
    \/ Dispatch
    \/ ReadArg
    \/ EnableInterruptsNoReturn
    \/ DrainByte
    \/ EndCommand
    \/ Cleanup
    \/ Restart

SpecConfig == InitConfig /\ [][NextConfig]_vars

(***************************************************************************)
(* SpecCapacity: the command loop of a session whose host has registered   *)
(* MAX_KEYS - 1 or MAX_KEYS keys already; ncmds counts the commands that    *)
(* follow them.                                                            *)
(***************************************************************************)
\* the registry after n ADD_KEY commands that went round the pins
FilledKeys(n) == [i \in 1 .. n |-> Key_init((i - 1) % (MaxByte + 1))]

InitCapacity ==
    /\ IdleTimer
    /\ pc = "cmd"
    /\ magic_idx = 8
    /\ garbage = 0
    /\ cmd = SETUPCMD_ADD_KEY
    /\ len_hi = 0
    /\ payload_len = 0
    /\ process_commands = TRUE
    /\ args = << >>
    /\ static_runs = 1
    /\ \E n \in {MAX_KEYS - 1, MAX_KEYS} :
        /\ st = [State_init EXCEPT !.key_count = n]
        /\ keys = FilledKeys(n)
    /\ pinmode = [p \in Pins |-> "reset"]
    /\ attached = {}
    /\ rx = MAGIC_NUMBER[8]
    /\ nread = 8
    /\ seen = 8
    /\ matched = TRUE
    /\ echoes = 1
    /\ reported = 0
    /\ entries = 1
    /\ ncmds = 0
    /\ frame_len = 0
    /\ frame_read = 0
    /\ snap = <<st, keys>>
    /\ IdleScan

SpecCapacity == InitCapacity /\ [][NextConfig]_vars

(***************************************************************************)
(* Claims about the magic-number loop (SpecResync).                        *)
(***************************************************************************)
\* C7: the device leaves RESYNC exactly at the first byte after which the 8
\* most recently read bytes equal the magic number: it is still in RESYNC
\* iff no such byte has been read yet, whatever preceded the magic number.
C7_LeavesAtFirstMatch == (pc = "resync") <=> ~matched

\* C8: on leaving RESYNC the reported garbage count is the number of bytes
\* read before the 8 matched bytes, the magic number is echoed exactly once
\* and the command loop is entered exactly once; no echo is sent before a
\* full match.
C8_Handshake ==
    /\ pc = "resync" => (echoes = 0 /\ entries = 0)
    /\ pc = "echo" => (echoes = 0 /\ entries = 0 /\ seen = 8 /\ garbage = nread - 8)
    /\ pc = "cmd" => (echoes = 1 /\ entries = 1 /\ seen = 8 /\ reported = nread - 8)

\* the command loop entered after garbage that held a partial match
C8_Witness == pc = "cmd" /\ reported >= 3 /\ echoes = 1

(***************************************************************************)
(* Claims about the command loop (SpecConfig).                             *)
(***************************************************************************)
\* the command loop is between two commands or has ended
BetweenCommands == pc \in {"cmd", "open"} /\ ncmds > 0

\* the device is inside a command
InCommand == pc \in {"len_hi", "len_lo", "switch", "arg", "drain"}

\* C9: for every command other than RESET, whatever its command byte and
\* declared big-endian payload length L, the device has consumed exactly
\* 3 + L bytes when it reads the next command byte or leaves the command
\* loop, and never more than that while inside the command.
C9_Framing ==
    /\ BetweenCommands => frame_read = 3 + frame_len
    /\ InCommand => frame_read <= 3 + frame_len

\* a SET_DEBOUNCE whose declared length has a high byte, read to its end
C9_Witness ==
    /\ BetweenCommands
    /\ cmd = SETUPCMD_SET_DEBOUNCE
    /\ frame_len = 257
    /\ frame_read = 3 + frame_len

\* what the claim calls a malformed command
Malformed(c, len) ==
    \/ c \notin {SETUPCMD_FINISH, SETUPCMD_ADD_KEY, SETUPCMD_SET_DEBOUNCE,
                 SETUPCMD_AWAIT_SMOOTHNESS, CMD_RESET, SETUPCMD_ENABLE_INTERRUPTS}
    \/ c \in {SETUPCMD_ADD_KEY, SETUPCMD_AWAIT_SMOOTHNESS, SETUPCMD_ENABLE_INTERRUPTS}
       /\ len < 1
    \/ c = SETUPCMD_SET_DEBOUNCE /\ len < 4

\* C10: an unknown command byte, or ADD_KEY / AWAIT_SMOOTHNESS /
\* ENABLE_INTERRUPTS with declared length < 1, or SET_DEBOUNCE with declared
\* length < 4, leaves debounce_micros, await_smoothness, enable_interrupts
\* and the keys unchanged, and the device stays in the command loop.
C10_MalformedKeepsState ==
    (ncmds > 0 /\ Malformed(cmd, frame_len)) =>
        /\ <<st, keys>> = snap
        /\ process_commands
        /\ pc \in {"len_hi", "len_lo", "switch", "drain", "cmd"}

\* an ADD_KEY that declared no payload, done with, after a command that
\* changed the state
C10_Witness ==
    /\ pc = "cmd"
    /\ ncmds = 2
    /\ cmd = SETUPCMD_ADD_KEY
    /\ frame_len = 0
    /\ st.key_count = 1

(***************************************************************************)
(* The clock and the pins while the device streams.                        *)
(***************************************************************************)
cmdLocals == <<magic_idx, garbage, cmd, len_hi, payload_len, process_commands, args,
               static_runs>>

\* by how much micros() may have moved on between two steps of the program
TimeSteps == {GUARD_MARGIN}

\* micros() moves on, before one of the places that read it: the guard of a
\* pass, check_now(), the set() of a key, the end of a pass
Advance ==
    /\ pc \in {"stream", "tick", "tick_arm"}
    /\ nadv < MaxAdvances
    /\ \E d \in TimeSteps : clock' = Add(clock, d)
    /\ nadv' = nadv + 1
    /\ UNCHANGED <<low, min_tick_time, ti, is_down, debounce>>
    /\ UNCHANGED <<sent, chk, passes, dirty, quiet, held, heldPrev, chg, since>>
    /\ UNCHANGED <<timerVars, runVars, stateVars, pinVars, linkVars, hwVars>>

\* a history counter that stops at 2
Bump(n) == IF n < 2 THEN n + 1 ELSE 2

\* the level of a registered pin changes, before a pass or before one of its
\* digitalRead calls, in a session without interrupts
RawChange ==
    /\ pc \in {"stream", "tick"}
    /\ attached = {}
    /\ \E p \in KeyPins :
        /\ low' = IF p \in low THEN low \ {p} ELSE low \cup {p}
        /\ chg' = [i \in 1 .. Len(keys) |-> IF keys[i].pin = p THEN Bump(chg[i]) ELSE chg[i]]
        /\ since' = [i \in 1 .. Len(keys) |-> IF keys[i].pin = p THEN 0 ELSE since[i]]
    /\ dirty' = TRUE
    /\ quiet' = FALSE
    /\ UNCHANGED <<clock, min_tick_time, ti, is_down, debounce>>
    /\ UNCHANGED <<nadv, sent, chk, passes, held, heldPrev>>
    /\ UNCHANGED hwVars
    /\ UNCHANGED <<timerVars, runVars, stateVars, pinVars, linkVars>>

(***************************************************************************)
(* Key_tick.  A pass runs with interrupts off; the clock still moves       *)
(* between its steps, and each micros() call is a step of its own.         *)
(***************************************************************************)
\* if (micros() < min_tick_time) return
Suppressed(now, not_before) == now < not_before

\* History: the host reads an event byte: bits 6-0 are the key index, bit 7
\* its new state.
HostSees(h, b) ==
    LET idx == b % 128
        bit == b >= 128
    IN  IF idx \in DOMAIN h.bit
        THEN [bit |-> [h.bit EXCEPT ![idx] = bit],
              alternates |-> h.alternates /\ h.bit[idx] # bit]
        ELSE [h EXCEPT !.alternates = FALSE]

\* an event byte with the state bit where the index belongs (fails C15)
EventByte_flipped(i, down) == (i % 128) + (IF down THEN 0 ELSE 128)

\* byte event = (byte)((i & 0x7F) | (is_down ? 0x80 : 0x00))
EventByte(i, down) == (i % 128) + (IF down THEN 128 ELSE 0)

\* the change branch up to the report, with key->was_down left as it was
KeyReport_stale(key, down, now) ==
    LET r == Timer_check(key.debounce_timer, now)
    IN  [debounce |-> r.ret, event |-> ~r.ret,
         key |-> [key EXCEPT !.debounce_timer = r.self]]

\* the change branch of a key up to the report: bool debounce, whether the
\* event byte is written, and the key afterwards
KeyReport(key, down, now) ==
    LET r == Timer_check(key.debounce_timer, now)
    IN  [debounce |-> r.ret, event |-> ~r.ret,
         key |-> [key EXCEPT !.debounce_timer = r.self,
                             !.was_down = IF r.ret THEN @ ELSE down]]

\* the timer set again after every pending change (fails C16)
KeyArm_always(key, await, deb, now, micros) ==
    [key EXCEPT !.debounce_timer = Timer_set(@, Add(now, micros))]

\* if (state->await_smoothness || !debounce) key->debounce_timer.set(micros() + debounce_micros)
KeyArm(key, await, deb, now, micros) ==
    IF await \/ ~deb
    THEN [key EXCEPT !.debounce_timer = Timer_set(@, Add(now, micros))]
    ELSE key

\* noInterrupts(); the guard; the loop starts
TickEnter ==
    /\ pc = "stream"
    /\ IF Suppressed(clock, min_tick_time)
       THEN /\ pc' = "poll"
            /\ ints' = TRUE
            /\ UNCHANGED <<ti, sent, dirty, quiet, held, heldPrev>>
       ELSE /\ pc' = "tick"
            /\ ints' = FALSE
            /\ ti' = 0
            /\ sent' = << >>
            /\ quiet' = (passes > 0 /\ ~dirty)
            /\ dirty' = FALSE
            /\ heldPrev' = held
            /\ held' = {}
    /\ UNCHANGED <<clock, low, min_tick_time, is_down, debounce>>
    /\ UNCHANGED <<nadv, chk, passes, chg, since>>
    /\ UNCHANGED <<oi, irq, opened, isr, host>>
    /\ UNCHANGED <<cmdLocals, timerVars, stateVars, pinVars, linkVars>>

\* the loop body of key i up to the report: digitalRead, the change test,
\* check_now(), Serial.write(event), key->was_down = is_down
TickCheck ==
    /\ pc = "tick"
    /\ ti < st.key_count
    /\ LET key == keys[ti + 1]
           down == key.pin \in low
           t == key.debounce_timer
           r == KeyReport(key, down, clock)
       IN  /\ is_down' = down
           /\ IF key.was_down # down
              THEN /\ keys' = [keys EXCEPT ![ti + 1] = r.key]
                   /\ debounce' = r.debounce
                   /\ sent' = IF r.event THEN Append(sent, EventByte(ti, down)) ELSE sent
                   /\ host' = IF r.event THEN HostSees(host, EventByte(ti, down)) ELSE host
                   /\ pc' = "tick_arm"
                   /\ chk' = [i |-> ti, pending |-> TRUE, armed |-> t.enabled,
                              due |-> ForwardDistance(t.timeout, clock) < Half,
                              event |-> r.event, single |-> chg[ti + 1] = 1]
                   /\ held' = IF r.event THEN held ELSE held \cup {ti}
                   /\ chg' = IF r.key.was_down = down THEN [chg EXCEPT ![ti + 1] = 0] ELSE chg
                   /\ since' = IF r.event THEN [since EXCEPT ![ti + 1] = Bump(@)] ELSE since
                   /\ UNCHANGED ti
              ELSE /\ ti' = ti + 1
                   /\ chk' = [NoCheck EXCEPT !.i = ti]
                   /\ chg' = [chg EXCEPT ![ti + 1] = 0]
                   /\ UNCHANGED <<keys, debounce, sent, pc, held, since, host>>
    /\ UNCHANGED <<clock, low, min_tick_time>>
    /\ UNCHANGED <<nadv, passes, dirty, quiet, heldPrev>>
    /\ UNCHANGED <<oi, ints, irq, opened, isr>>
    /\ UNCHANGED <<cmdLocals, timerVars, st, pinVars, linkVars>>

\* the rest of the change branch: the timer is set again, or not; i++
TickArm ==
    /\ pc = "tick_arm"
    /\ keys' = [keys EXCEPT ![ti + 1] =
                    KeyArm(@, st.await_smoothness, debounce, clock, st.debounce_micros)]
    /\ ti' = ti + 1
    /\ pc' = "tick"
    /\ UNCHANGED <<clock, low, min_tick_time, is_down, debounce>>
    /\ UNCHANGED <<cmdLocals, timerVars, st, pinVars, linkVars, scanHist, hwVars>>

\* the loop ends: min_tick_time = micros() + 50; interrupts()
TickExit ==
    /\ pc = "tick"
    /\ ~(ti < st.key_count)
    /\ min_tick_time' = Add(clock, GUARD_MARGIN)
    /\ passes' = 1
    /\ ints' = TRUE
    /\ pc' = "poll"
    /\ UNCHANGED <<oi, irq, opened, isr, host>>
    /\ UNCHANGED <<clock, low, ti, is_down, debounce>>
    /\ UNCHANGED <<nadv, sent, chk, dirty, quiet, held, heldPrev, chg, since>>
    /\ UNCHANGED <<cmdLocals, timerVars, stateVars, pinVars, linkVars>>

\* if (Serial.read() == CMD_RESET) goto quit; -1 is Serial.read() with
\* nothing to read.  The history of the streaming phase ends with it.
PollSerial ==
    /\ pc = "poll"
    /\ \E b \in {-1, 0, CMD_RESET} :
        IF b = CMD_RESET
        THEN /\ pc' = "quit"
             /\ nadv' = 0
             /\ sent' = << >>
             /\ chk' = NoCheck
             /\ passes' = 0
             /\ dirty' = FALSE
             /\ quiet' = FALSE
             /\ held' = {}
             /\ heldPrev' = {}
             /\ chg' = [i \in 1 .. Len(keys) |-> 0]
             /\ since' = [i \in 1 .. Len(keys) |-> 0]
        ELSE /\ pc' = "stream"
             /\ UNCHANGED scanHist
    /\ UNCHANGED <<cmdLocals, timerVars, stateVars, pinVars, linkVars, tickVars, hwVars>>

(***************************************************************************)
(* SpecScan: the streaming loop of a session whose host registered keys    *)
(* and set the debounce time and policy; interrupts are not in use.        *)
(***************************************************************************)
\* the pins of the keys the host registered: key i on a pin of its own
Registries == {[i \in 1 .. n |-> i - 1] : n \in 1 .. MaxScanKeys}

\* the debounce times the host may have set
DebounceTimes == {0, GUARD_MARGIN, 120}

InitScan ==
    /\ IdleTimer
    /\ pc = "stream"
    /\ magic_idx = 8
    /\ garbage = 0
    /\ cmd = SETUPCMD_FINISH
    /\ len_hi = 0
    /\ payload_len = 0
    /\ process_commands = FALSE
    /\ args = << >>
    /\ static_runs = 1
    /\ \E r \in Registries :
        /\ keys = [i \in 1 .. Len(r) |-> Key_init(r[i])]
        /\ pinmode = [p \in Pins |->
                        IF \E i \in 1 .. Len(r) : r[i] = p THEN "INPUT_PULLUP" ELSE "reset"]
        /\ chg = [i \in 1 .. Len(r) |-> 0]
        /\ since = [i \in 1 .. Len(r) |-> 0]
    /\ st \in [debounce_micros : DebounceTimes, await_smoothness : BOOLEAN,
               enable_interrupts : {FALSE}, key_count : {Len(keys)}]
    /\ attached = {}
    /\ rx = MAGIC_NUMBER[8]
    /\ nread = 8
    /\ seen = 8
    /\ matched = TRUE
    /\ echoes = 1
    /\ reported = 0
    /\ entries = 1
    /\ ncmds = 0
    /\ frame_len = 0
    /\ frame_read = 0
    /\ snap = <<State_init, << >> >>
    /\ oi = Len(keys)
    /\ ints = TRUE
    /\ irq = {}
    /\ opened = [i \in 1 .. Len(keys) |-> [pin |-> keys[i].pin, index |-> i - 1, attach |-> FALSE]]
    /\ isr = NoIsr
    /\ host = NoEvents(Len(keys))
    /\ clock = Sub(0, 120)
    /\ low = {}
    /\ min_tick_time = 0
    /\ ti = 0
    /\ is_down = FALSE
    /\ debounce = FALSE
    /\ nadv = 0
    /\ sent = << >>
    /\ chk = NoCheck
    /\ passes = 0
    /\ dirty = FALSE
    /\ quiet = FALSE
    /\ held = {}
    /\ heldPrev = {}

NextScan ==
    \/ Advance
    \/ RawChange
    \/ TickEnter
    \/ TickCheck
    \/ TickArm
    \/ TickExit
    \/ PollSerial
    \/ Cleanup

SpecScan == InitScan /\ [][NextScan]_vars

(***************************************************************************)
(* Claims about the scan of the keys.  chk is the record of the last key   *)
(* the pass looked at: whether its level differed from was_down, the       *)
(* timer as check_now() found it, and whether the event byte was written.  *)
(***************************************************************************)
\* C3: in a pass, for a key whose level differs from its reported state, the
\* event byte is written and was_down updated exactly when the key's timer
\* is disabled or has expired at now; while the timer is armed and not yet
\* expired nothing is written and was_down stays as it was.
C3_EmitsUnlessBlocked ==
    (pc = "tick_arm" /\ chk.pending) =>
        /\ chk.event <=> (~chk.armed \/ chk.due)
        /\ (keys[ti + 1].was_down = is_down) <=> (~chk.armed \/ chk.due)

\* C4: when the level of a key changes once and then stays, at most one
\* event byte is written for the key however many passes run, and it is
\* written by the first pass at or after the end of the debounce window and
\* by none before.
C4_OneEventAtWindowEnd ==
    /\ \A i \in 1 .. Len(since) : since[i] <= 1
    /\ (pc = "tick_arm" /\ chk.single) => (chk.event <=> (~chk.armed \/ chk.due))

\* C5 as stated: when two passes run with the level of every key the same in
\* both, the second pass writes no event byte.
C5_Idempotent == (quiet /\ pc \in {"tick", "tick_arm", "poll"}) => sent = << >>

\* C5: when two passes run with the level of every key the same in both, the
\* second pass writes an event byte only for a key whose level differed from
\* its reported state in the first pass and whose event the first pass held
\* back; for a key the first pass reported or found unchanged it writes none.
C5_SecondPassOnlyHeldBack ==
    (quiet /\ pc \in {"tick", "tick_arm", "poll"}) =>
        \A k \in 1 .. Len(sent) : (sent[k] % 128) \in heldPrev

\* a second pass over unchanged levels has ended and has written the event
\* the first pass held back
C5_Witness == quiet /\ pc = "poll" /\ passes = 1 /\ sent # << >> /\ heldPrev # {}

\* C6: with await_smoothness off, the first pass at or after the deadline the
\* timer was given that finds the level of a key different from its reported
\* state writes the event byte, whatever the level did inside the window.
C6_ReportedAtDeadline ==
    (pc = "tick_arm" /\ chk.pending /\ ~st.await_smoothness /\ chk.armed /\ chk.due)
        => chk.event

(***************************************************************************)
(* Claims about the registry (SpecCapacity).                               *)
(***************************************************************************)
\* an ADD_KEY whose case has read its pin and called Key_setup
AddKeyDone ==
    /\ ncmds > 0
    /\ cmd = SETUPCMD_ADD_KEY
    /\ frame_len >= 1
    /\ pc \in {"drain", "cmd", "open"}

\* C11: the registry holds between 0 and MAX_KEYS keys; an ADD_KEY received
\* when it is full leaves key_count and the keys as they were and the device
\* goes on to the next command having read the whole frame; an ADD_KEY
\* received when it is not full appends the pin at index = previous
\* key_count with was_down false and the timer disabled.
C11_Capacity ==
    /\ st.key_count = Len(keys)
    /\ st.key_count \in 0 .. MAX_KEYS
    /\ (AddKeyDone /\ snap[1].key_count = MAX_KEYS) =>
            /\ <<st, keys>> = snap
            /\ process_commands
            /\ pc = "cmd" => frame_read = 3 + frame_len
    /\ (AddKeyDone /\ snap[1].key_count < MAX_KEYS) =>
            /\ st = [snap[1] EXCEPT !.key_count = @ + 1]
            /\ SubSeq(keys, 1, Len(keys) - 1) = snap[2]
            /\ keys[snap[1].key_count + 1].pin = args[1]
            /\ ~keys[snap[1].key_count + 1].was_down
            /\ ~keys[snap[1].key_count + 1].debounce_timer.enabled

\* the registry was filled by one ADD_KEY and the next ADD_KEY was turned
\* down; the device waits for the next command
C11_Witness ==
    /\ pc = "cmd"
    /\ ncmds = 2
    /\ AddKeyDone
    /\ snap[1].key_count = MAX_KEYS
    /\ Len(keys) = MAX_KEYS
    /\ keys[MAX_KEYS].pin = 2
    /\ args = <<1>>

(***************************************************************************)
(* Claims about the reset of a session.                                    *)
(***************************************************************************)
\* C12: when a RESET command with declared payload length L > 0 ends the
\* command loop, the device has read the L payload bytes as well by the time
\* State_run returns, so that the magic-number loop of the next session does
\* not get them: 3 + L bytes of the frame are consumed.
C12_ResetDrains ==
    (pc = "returned" /\ ncmds > 0 /\ cmd = CMD_RESET) => frame_read = 3 + frame_len

(***************************************************************************)
(* State_run: the open-pins loop.                                          *)
(***************************************************************************)
\* the inner loop, taken as never finding the pin
AlreadySetup_never(ks, i) == FALSE

\* for (j = 0; j < i; j++) if (keys[j].pin == key->pin) already_setup = true
\* (ks[i + 1] is the C keys[i])
AlreadySetup(ks, i) == \E j \in 1 .. i : ks[j].pin = ks[i + 1].pin

\* one turn of the loop: pinMode(INPUT_PULLUP) and attachInterrupt for a pin
\* not set up by an earlier key
OpenPin ==
    /\ pc = "open"
    /\ oi < st.key_count
    /\ LET pin == keys[oi + 1].pin
       IN  IF AlreadySetup(keys, oi)
           THEN UNCHANGED <<pinmode, attached, opened>>
           ELSE /\ pinmode' = [pinmode EXCEPT ![pin] = "INPUT_PULLUP"]
                /\ attached' = IF st.enable_interrupts THEN attached \cup {pin} ELSE attached
                /\ opened' = Append(opened, [pin |-> pin, index |-> oi,
                                             attach |-> st.enable_interrupts])
    /\ oi' = oi + 1
    /\ UNCHANGED <<ints, irq, isr, host>>
    /\ UNCHANGED <<timerVars, runVars, stateVars, linkVars, tickVars, scanHist>>

\* the loop ends; the log lines; while (true)
OpenDone ==
    /\ pc = "open"
    /\ ~(oi < st.key_count)
    /\ pc' = "stream"
    /\ UNCHANGED <<cmdLocals, timerVars, stateVars, pinVars, linkVars, scanVars>>

(***************************************************************************)
(* SpecOpen: the open-pins loop of a session whose host registered up to    *)
(* MaxOpenKeys keys on any pins, also the same pin more than once, and set  *)
(* enable_interrupts either way.                                           *)
(***************************************************************************)
\* the pins of the keys in the order of their ADD_KEY commands
OpenRegistries == UNION {[1 .. n -> Pins] : n \in 0 .. MaxOpenKeys}

InitOpen ==
    /\ IdleTimer
    /\ pc = "open"
    /\ magic_idx = 8
    /\ garbage = 0
    /\ cmd = SETUPCMD_FINISH
    /\ len_hi = 0
    /\ payload_len = 0
    /\ process_commands = FALSE
    /\ args = << >>
    /\ static_runs = 1
    /\ \E r \in OpenRegistries : keys = [i \in 1 .. Len(r) |-> Key_init(r[i])]
    /\ \E e \in BOOLEAN :
        st = [State_init EXCEPT !.enable_interrupts = e, !.key_count = Len(keys)]
    /\ pinmode = [p \in Pins |-> "reset"]
    /\ attached = {}
    /\ rx = MAGIC_NUMBER[8]
    /\ nread = 8
    /\ seen = 8
    /\ matched = TRUE
    /\ echoes = 1
    /\ reported = 0
    /\ entries = 1
    /\ ncmds = 0
    /\ frame_len = 0
    /\ frame_read = 0
    /\ snap = <<State_init, << >> >>
    /\ IdleScan

NextOpen == OpenPin \/ OpenDone

SpecOpen == InitOpen /\ [][NextOpen]_vars

\* pins of the keys the open-pins loop has gone through
PinsDone == {keys[j].pin : j \in 1 .. oi}

\* C13: whatever the registry holds, duplicates included, the hardware setup
\* (pull-up input, and the change interrupt iff enable_interrupts) is done
\* exactly once for every distinct pin in it, by the turn of the first key
\* that carries the pin, and never for a pin that is not in the registry.
C13_SetupOncePerPin ==
    pc \in {"open", "stream"} =>
        /\ \A k \in 1 .. Len(opened) :
            /\ opened[k].index < oi
            /\ keys[opened[k].index + 1].pin = opened[k].pin
            /\ \A j \in 1 .. opened[k].index : keys[j].pin # opened[k].pin
            /\ opened[k].attach = st.enable_interrupts
        /\ \A p \in Pins :
            /\ Cardinality({k \in 1 .. Len(opened) : opened[k].pin = p})
                    = IF p \in PinsDone THEN 1 ELSE 0
            /\ pinmode[p] = "INPUT_PULLUP" <=> p \in PinsDone
            /\ p \in attached <=> (st.enable_interrupts /\ p \in PinsDone)
        /\ pc = "stream" => PinsDone = KeyPins

\* the loop has ended on a registry with one pin held by the first and the
\* third key and another pin by the second, with interrupts in use
C13_Witness ==
    /\ pc = "stream"
    /\ Len(keys) = 3
    /\ keys[1].pin = keys[3].pin
    /\ keys[2].pin # keys[1].pin
    /\ Len(opened) = 2
    /\ attached = {keys[1].pin, keys[2].pin}

(***************************************************************************)
(* Key_handle_interrupt.  The handler runs with interrupts off from its    *)
(* entry to the interrupts() at the end of Key_tick, so its pass is one    *)
(* step; it cannot begin while the flag is off.                            *)
(***************************************************************************)
\* the level of a registered pin changes while the pins are being opened,
\* before a pass or before one of its digitalRead calls; the change of an
\* attached pin raises its interrupt (the history of the polled passes,
\* scanHist, is not kept in a session with interrupts)
PinChange ==
    /\ pc \in {"open", "stream", "tick"}
    /\ \E p \in KeyPins :
        /\ low' = IF p \in low THEN low \ {p} ELSE low \cup {p}
        /\ irq' = IF p \in attached THEN irq \cup {p} ELSE irq
    /\ UNCHANGED <<clock, min_tick_time, ti, is_down, debounce>>
    /\ UNCHANGED <<oi, ints, opened, isr, host>>
    /\ UNCHANGED <<timerVars, runVars, stateVars, pinVars, linkVars, scanHist>>

RECURSIVE PassFrom(_, _, _, _, _)
\* the loop of Key_tick from key i on, with the levels lv, micros() = now and
\* the settings s: the keys afterwards and the event bytes in order
PassFrom(ks, i, lv, now, s) ==
    IF ~(i < s.key_count)
    THEN [keys |-> ks, bytes |-> << >>]
    ELSE LET key == ks[i + 1]
             down == key.pin \in lv
         IN  IF key.was_down # down
             THEN LET r == KeyReport(key, down, now)
                      armed == KeyArm(r.key, s.await_smoothness, r.debounce, now,
                                      s.debounce_micros)
                      rest == PassFrom([ks EXCEPT ![i + 1] = armed], i + 1, lv, now, s)
                  IN  [keys |-> rest.keys,
                       bytes |-> IF r.event THEN <<EventByte(i, down)>> \o rest.bytes
                                            ELSE rest.bytes]
             ELSE PassFrom(ks, i + 1, lv, now, s)

RECURSIVE HostSeesAll(_, _)
\* History: the host reads the bytes bs in order.
HostSeesAll(h, bs) == IF bs = << >> THEN h ELSE HostSeesAll(HostSees(h, Head(bs)), Tail(bs))

\* the change interrupt of an attached pin is served: Key_tick(&static_state)
\* (of the history of the polled passes only their count follows these passes)
IsrTick ==
    /\ ints
    /\ \E p \in irq \cap attached : irq' = irq \ {p}
    /\ IF Suppressed(clock, min_tick_time)
       THEN /\ isr' = [ran |-> FALSE, opening |-> pc = "open", unset |-> FALSE]
            /\ UNCHANGED <<keys, min_tick_time, host, passes>>
       ELSE LET r == PassFrom(keys, 0, low, clock, st)
            IN  /\ keys' = r.keys
                /\ min_tick_time' = Add(clock, GUARD_MARGIN)
                /\ host' = HostSeesAll(host, r.bytes)
                /\ passes' = 1
                /\ isr' = [ran |-> TRUE, opening |-> pc = "open",
                           unset |-> \E i \in 1 .. Len(keys) :
                                        pinmode[keys[i].pin] # "INPUT_PULLUP"]
    /\ UNCHANGED <<clock, low, ti, is_down, debounce>>
    /\ UNCHANGED <<nadv, sent, chk, dirty, quiet, held, heldPrev, chg, since>>
    /\ UNCHANGED <<oi, ints, opened>>
    /\ UNCHANGED <<timerVars, runVars, st, pinVars, linkVars>>

(***************************************************************************)
(* SpecIsr: a session whose host registered keys and set                   *)
(* enable_interrupts, from the open-pins loop through streaming to the     *)
(* reset and the entry of the next State_run.                              *)
(***************************************************************************)
InitIsr ==
    /\ IdleTimer
    /\ pc = "open"
    /\ magic_idx = 8
    /\ garbage = 0
    /\ cmd = SETUPCMD_FINISH
    /\ len_hi = 0
    /\ payload_len = 0
    /\ process_commands = FALSE
    /\ args = << >>
    /\ static_runs = 1
    /\ \E r \in Registries :
        /\ keys = [i \in 1 .. Len(r) |-> Key_init(r[i])]
        /\ chg = [i \in 1 .. Len(r) |-> 0]
        /\ since = [i \in 1 .. Len(r) |-> 0]
    /\ st = [State_init EXCEPT !.debounce_micros = 120, !.enable_interrupts = TRUE,
                               !.key_count = Len(keys)]
    /\ pinmode = [p \in Pins |-> "reset"]
    /\ attached = {}
    /\ rx = MAGIC_NUMBER[8]
    /\ nread = 8
    /\ seen = 8
    /\ matched = TRUE
    /\ echoes = 1
    /\ reported = 0
    /\ entries = 1
    /\ ncmds = 0
    /\ frame_len = 0
    /\ frame_read = 0
    /\ snap = <<State_init, << >> >>
    /\ oi = 0
    /\ ints = TRUE
    /\ irq = {}
    /\ opened = << >>
    /\ isr = NoIsr
    /\ host = NoEvents(Len(keys))
    /\ clock = Sub(0, 120)
    /\ low = {}
    /\ min_tick_time = 0
    /\ ti = 0
    /\ is_down = FALSE
    /\ debounce = FALSE
    /\ nadv = 0
    /\ sent = << >>
    /\ chk = NoCheck
    /\ passes = 0
    /\ dirty = FALSE
    /\ quiet = FALSE
    /\ held = {}
    /\ heldPrev = {}

NextIsr ==
    \/ OpenPin
    \/ OpenDone
    \/ PinChange
    \/ IsrTick
    \/ Advance
    \/ TickEnter
    \/ TickCheck
    \/ TickArm
    \/ TickExit
    \/ PollSerial
    \/ Cleanup
    \/ Restart

SpecIsr == InitIsr /\ [][NextIsr]_vars

\* the state bit as the number the byte carries in bit 7
StateBit(down) == IF down THEN 1 ELSE 0

\* the encoding, over every index a registry can hold: the byte is
\* i + 128 * s, and the index and the state can be read back from it
EncodingExact ==
    /\ \A i \in 0 .. MAX_KEYS - 1 : \A s \in BOOLEAN :
            /\ EventByte(i, s) = i + 128 * StateBit(s)
            /\ EventByte(i, s) % 128 = i
            /\ (EventByte(i, s) >= 128) = s
    /\ EventByte(0, TRUE) = 128

\* C15: the byte written for key index i and new state s is i + 128 * s for
\* every index below MAX_KEYS, so the index and the state can be read back
\* from it and the first down event of key 0 is 0x80; and in a pass every
\* byte written is the one of the key that is being looked at and of the pin
\* level that was read, with an index below key_count.
C15_EventEncoding ==
    /\ EncodingExact
    /\ (pc = "tick_arm" /\ chk.event) =>
            /\ sent # << >>
            /\ sent[Len(sent)] = chk.i + 128 * StateBit(is_down)
            /\ chk.i = ti
            /\ is_down = (keys[ti + 1].pin \in low)
    /\ \A n \in 1 .. Len(sent) : sent[n] % 128 < st.key_count

\* one pass has written the down event of key 0 and then the one of key 1
C15_Witness == pc = "tick_arm" /\ chk.event /\ sent = <<128, 129>>

\* C16: in a pass, the timer of a key with a pending change is set to
\* micros() + debounce_micros exactly when await_smoothness is on or the
\* event was written in this pass, and is otherwise left as check_now() left
\* it; a key without a pending change is left untouched, and so is every key
\* other than the one being visited.
C16_RearmRule ==
    [][ /\ (pc = "tick_arm" /\ pc' = "tick") =>
                keys' = [keys EXCEPT ![ti + 1].debounce_timer =
                            IF st.await_smoothness \/ chk.event
                            THEN [timeout |-> Add(clock, st.debounce_micros),
                                  enabled |-> TRUE]
                            ELSE @]
        /\ (pc = "tick" /\ pc' = "tick") => keys' = keys
        /\ (pc = "tick" /\ pc' = "tick_arm") =>
                \A j \in 1 .. Len(keys) : j # ti + 1 => keys'[j] = keys[j]
      ]_vars

\* with await_smoothness off a pending change was held back, and the step
\* after it left the timer off
C16_Witness ==
    /\ pc = "tick"
    /\ ti > 0
    /\ chk.pending
    /\ chk.i = ti - 1
    /\ ~chk.event
    /\ ~st.await_smoothness
    /\ ~keys[ti].debounce_timer.enabled

(***************************************************************************)
(* Claims about a session with interrupts (SpecIsr).                       *)
(***************************************************************************)
\* C14: after the reset byte of the streaming loop (the RESET command jumps
\* to the same label) every registered pin is a plain input with its
\* interrupt detached when State_run returns, and the next State_run begins
\* with no keys and the default settings: nothing of the keys, their
\* was_down, their timers or the settings of the session before is left.
C14_ResetClearsSession ==
    /\ pc = "returned" =>
            \A p \in KeyPins : pinmode[p] = "INPUT" /\ p \notin attached
    /\ (pc = "resync" /\ static_runs > 1) =>
            /\ st = State_init
            /\ keys = << >>
            /\ attached = {}
            /\ irq = {}
            /\ \A p \in Pins : pinmode[p] # "INPUT_PULLUP"

\* the next State_run has begun after a session that streamed with two keys
\* on attached pins and ran a pass
C14_Witness ==
    /\ pc = "resync"
    /\ static_runs = 2
    /\ pinmode[0] = "INPUT"
    /\ pinmode[1] = "INPUT"
    /\ min_tick_time # 0
    /\ low # {}

\* time since the last completed pass ended (less than one turn of the clock)
Elapsed == Sub(clock, Sub(min_tick_time, GUARD_MARGIN))

\* a pass has ended less than the guard margin ago
InsideMargin == passes > 0 /\ Elapsed < GUARD_MARGIN

\* a step in which the handler served a pending change interrupt
IsrStep == pc' = pc /\ irq' # irq /\ irq' \subseteq irq

\* C17: a call of Key_tick made before the not-before instant, from the loop
\* or from the handler, writes no event and leaves was_down and the timers of
\* every key alone; no pass of the handler begins while a pass of the loop is
\* inside its loop over the keys; and was_down and the timers are written
\* only inside a pass that the guard let through.
C17_GuardSerialises ==
    [][ /\ (pc = "stream" /\ pc' \in {"tick", "poll"} /\ InsideMargin) =>
                (pc' = "poll" /\ keys' = keys /\ host' = host)
        /\ (IsrStep /\ InsideMargin) =>
                (~isr'.ran /\ keys' = keys /\ host' = host)
        /\ IsrStep => pc \notin {"tick", "tick_arm"}
        /\ (keys' # keys) =>
                (pc \in {"tick", "tick_arm", "returned"} \/ (IsrStep /\ isr'.ran))
      ]_vars

\* C18: with the clock counting modulo 2^ClockBits, a call of Key_tick from
\* the streaming loop made GUARD_MARGIN or more after the last pass ended is
\* let through by the guard and starts a pass, also when the clock wrapped
\* in between.
C18_GuardAcrossWrap ==
    [][ (pc = "stream" /\ pc' \in {"tick", "poll"}
            /\ passes > 0 /\ Elapsed >= GUARD_MARGIN) => pc' = "tick" ]_vars

\* C19: no pass runs and no event byte is written outside streaming: a pass
\* of the loop runs only after the open-pins loop has ended, and a pass of
\* the handler runs only when every registered key has had its pin set up,
\* so no pass reads a pin that was not set up.
C19_PassOnlyWhenSetUp ==
    /\ pc \in {"tick", "tick_arm"} =>
            \A i \in 1 .. Len(keys) : pinmode[keys[i].pin] = "INPUT_PULLUP"
    /\ isr.ran => (~isr.unset /\ ~isr.opening)

\* C20: in every state of a session the was_down of each key is the state bit
\* of the last event byte written for its index in this session, FALSE when
\* none was written; so the events of one key alternate down, up, down, ...,
\* the first being down, and no two in a row carry the same state.
C20_HostBelief ==
    /\ DOMAIN host.bit = 0 .. Len(keys) - 1
    /\ \A i \in 1 .. Len(keys) : keys[i].was_down = host.bit[i - 1]
    /\ host.alternates

\* key 0 was reported down and up again (its timer is on, its state is up),
\* key 1 is reported down, and the handler has run a pass
C20_Witness ==
    /\ pc = "poll"
    /\ Len(keys) = 2
    /\ ~keys[1].was_down
    /\ keys[1].debounce_timer.enabled
    /\ keys[2].was_down
    /\ host.bit[1]
    /\ isr.ran
====
